---- MODULE Spec2Model ----
(***************************************************************************)
(* The WebSocket tunnel broker of src/server.js as a state machine.        *)
(*                                                                         *)
(* One step of the model is one callback of the single-threaded event      *)
(* loop: the 'connection' handler, the 'message' handler (up to its first  *)
(* await), the continuation of an awaited HTTP call, the transport 'close' *)
(* handler, one event of a tunnel's outbound socket, the cleanup timer.    *)
(* Handlers are operators over a record `st` of the mutable objects they   *)
(* touch; an action applies one handler and stores the result.             *)
(***************************************************************************)
EXTENDS Integers, Sequences, FiniteSets, TLC

\* ---------------------------------------------------------------- bounds
MaxTunnels == 1         \* TCPTunnel objects constructed over a run
MaxHttp == 1            \* proxyHttpRequest promises pending at a time
MaxTicks == 1           \* advances of the clock over a run
MaxBuffered == 2         \* chunks counted in the write queue of a connecting socket
MaxPayloadLen == 2       \* bytes of a payload given to the raw-stream cipher

\* A tunnel and another one, for the runs in which two tunnels exist at once.
PairIds == {1, 2}

\* The ids the histories are kept for.
TunnelIds == (1..MaxTunnels) \cup PairIds

\* The sessions of a run: a session and another one, in the order they connect.
\* The handlers only compare session ids for equality.
ClientIds == {1, 2}

\* ------------------------------------------------------ program constants
MaxTunnelAge == 3600000     \* "older than 1 hour", in ms
CleanupInterval == 60000    \* period of the cleanup timer, in ms

validTokens == {"client123", "browser-client", "vpn-user"}

ENCRYPTION_KEY == "VPN_SECRET"

\* ------------------------------------------------------------ input sets
Tokens == {"client123", "letmein"}
Keys == {ENCRYPTION_KEY, "other-key"}
Payloads == {"GET /"}
Hosts == {"203.0.113.5"}
Ports == {"80"}
BadHosts == {""}            \* targetHost empty or missing
BadPorts == {"abc"}         \* targetPort not numeric
Chunks == {"c1", "c2"}      \* what a tunnel's outbound connection delivers
TimeSteps == {CleanupInterval, MaxTunnelAge + CleanupInterval}

\* An encrypted blob, symbolically: what was encrypted and under which key.
Blobs == [key : Keys, pt : Payloads]

\* Inbound messages after JSON.parse. A field a message type does not carry
\* holds its default (tunnelId 0 is an id no tunnel has).
NoBlob == [key |-> "none", pt |-> ""]

Message(type, token, timestamp, tunnelId, data, targetHost, targetPort) ==
    [type |-> type, token |-> token, timestamp |-> timestamp, tunnelId |-> tunnelId,
     data |-> data, targetHost |-> targetHost, targetPort |-> targetPort]

Bare(type) == Message(type, "", 0, 0, NoBlob, "", "")

Messages ==
    {Message("auth", tok, 0, 0, NoBlob, "", "") : tok \in Tokens}
    \cup {Message("ping", "", 1000, 0, NoBlob, "", "")}
    \cup {Message("create_tunnel", "", 0, 0, NoBlob, h, p) : h \in Hosts, p \in Ports}
    \cup {Message("tunnel_data", "", 0, t, b, "", "") : t \in 0..MaxTunnels, b \in Blobs}
    \cup {Message("close_tunnel", "", 0, t, NoBlob, "", "") : t \in 0..MaxTunnels}
    \cup {Bare("stats"), Bare("http_proxy"), Bare("bogus")}

\* create_tunnel messages with a malformed target.
MalformedCreates ==
    {Message("create_tunnel", "", 0, 0, NoBlob, h, p) :
        h \in Hosts \cup BadHosts, p \in Ports \cup BadPorts}
    \ {Message("create_tunnel", "", 0, 0, NoBlob, h, p) : h \in Hosts, p \in Ports}

NoMessage == Bare("none")

VARIABLES
    clients,    \* the Map clients: clientId -> clientInfo
    tunnels,    \* the keys of the Map tunnels (each maps to the object tobj[key])
    tobj,       \* every TCPTunnel object constructed so far, by tunnelId
    ws,         \* readyState of each session's WebSocket: "none", "open", "closed"
    http,       \* per session, the http_proxy handlers suspended at their await
    now,        \* Date.now()
    ticks,      \* clock advances so far
    sent,       \* the ws.send calls of the last step, in order
    wrote,      \* the tcpSocket.write calls of the last step, in order
    last,       \* the callback that ran in the last step and its input
    closeSent,  \* history: per tunnel, `tunnel_close` messages delivered to the owner
    born,       \* history: per tunnel, the clock when it was constructed
    opened,     \* history: the tunnels for which `tunnel_open` was sent
    connectFailed,  \* history: the tunnels whose socket failed while connecting
    cipher,     \* a run of SimpleEncryption / VPNEncryption on chosen inputs
    raw,        \* one connection of the raw-stream server VPNServerTCP
    plain       \* one connection of the plain TCP server VPNServer

vars == <<clients, tunnels, tobj, ws, http, now, ticks, sent, wrote, last,
          closeSent, born, opened, connectFailed, cipher, raw, plain>>

\* ------------------------------------------------------------ the heap
\* What a handler reads and writes, threaded through the handler operators.
Heap == [clients |-> clients, tunnels |-> tunnels, tobj |-> tobj, ws |-> ws,
         http |-> http, sent |-> <<>>, wrote |-> <<>>]

Without(f, k) == [x \in (DOMAIN f) \ {k} |-> f[x]]

\* ws.send(JSON.stringify(msg)) on the transport of session `to`. On a transport
\* that is no longer open the call returns without delivering anything.
WsSend(st, to, msg) ==
    [st EXCEPT !.sent = Append(@, [to |-> to, delivered |-> st.ws[to] = "open", msg |-> msg])]


\* ------------------------------------------------------------ VPNEncryption
encrypt(data) == [key |-> ENCRYPTION_KEY, pt |-> data]

\* null (ok = FALSE) when the blob does not authenticate under ENCRYPTION_KEY.
decrypt(blob) ==
    IF blob.key = ENCRYPTION_KEY THEN [ok |-> TRUE, data |-> blob.pt]
    ELSE [ok |-> FALSE, data |-> ""]

\* ---------------------------------------------------------------- TCPTunnel
\* parseInt of a message field: a number, or NaN.
parseInt(text) ==
    CASE text = "80" -> [nan |-> FALSE, n |-> 80]
      [] OTHER -> [nan |-> TRUE, n |-> 0]

\* net.createConnection throws, before anything is connected, on a port that is
\* no number in 0..65535.
LegalPort(port) == ~port.nan /\ port.n >= 0 /\ port.n <= 65535

\* net.createConnection connects to localhost when the host is empty or missing.
ConnectHost(targetHost) == IF targetHost = "" THEN "localhost" ELSE targetHost

\* The fields the constructor sets; connect() leaves the socket connecting to
\* `peer`. writableLength is the socket's count of chunks written and not yet
\* handed to the connection.
TCPTunnel(clientId, targetHost, targetPort, tunnelId) ==
    [clientId |-> clientId, targetHost |-> targetHost, targetPort |-> targetPort.n,
     tunnelId |-> tunnelId, tcpSocket |-> "connecting", peer |-> ConnectHost(targetHost),
     writableLength |-> 0]

Destroyed(sock) == sock \in {"destroyed", "closed"}

\* TCPTunnel.send: write() queues the chunk while the socket is connecting, and
\* hands it to the connection at once when it is open.
TunnelSend(st, t, data) ==
    IF ~Destroyed(st.tobj[t].tcpSocket)
    THEN [st EXCEPT !.wrote = Append(@, [tunnelId |-> t, data |-> data]),
                    !.tobj[t].writableLength =
                        IF st.tobj[t].tcpSocket = "connecting" THEN @ + 1 ELSE @]
    ELSE st

\* Mutant of TCPTunnel.close: the tunnel stays in the registry.
TunnelClose_KeepsRegistry(st, t) ==
    LET s1 == [st EXCEPT !.tobj[t].tcpSocket = IF Destroyed(@) THEN @ ELSE "destroyed",
                         !.tobj[t].writableLength = 0]
    IN  WsSend(s1, st.tobj[t].clientId, [type |-> "tunnel_close", tunnelId |-> t])

\* Mutant of TCPTunnel.close: the outbound socket is not destroyed.
TunnelClose_LeavesSocket(st, t) ==
    LET s1 == [st EXCEPT !.tunnels = @ \ {t}]
    IN  WsSend(s1, st.tobj[t].clientId, [type |-> "tunnel_close", tunnelId |-> t])

\* TCPTunnel.close
TunnelClose(st, t) ==
    LET s1 == [st EXCEPT !.tobj[t].tcpSocket = IF Destroyed(@) THEN @ ELSE "destroyed",
                         !.tobj[t].writableLength = 0,
                         !.tunnels = @ \ {t}]
    IN  WsSend(s1, st.tobj[t].clientId, [type |-> "tunnel_close", tunnelId |-> t])

\* ------------------------------------------------------ handleClientMessage
FreshTunnelId(st) == Cardinality(DOMAIN st.tobj) + 1


\* Mutant of Auth: the success branch replies without setting the flag.
Auth_FlagNotSet(st, clientId, message) ==
    IF message.token \in validTokens
    THEN WsSend(st, clientId,
                [type |-> "auth_success", clientId |-> clientId,
                 permissions |-> <<"create_tunnel", "ping", "stats">>])
    ELSE WsSend(st, clientId, [type |-> "auth_failed", reason |-> "Invalid token"])

\* Mutant of Auth: a failed attempt clears the flag.
Auth_FailureClearsFlag(st, clientId, message) ==
    IF message.token \in validTokens
    THEN WsSend([st EXCEPT !.clients[clientId].authenticated = TRUE], clientId,
                [type |-> "auth_success", clientId |-> clientId,
                 permissions |-> <<"create_tunnel", "ping", "stats">>])
    ELSE WsSend([st EXCEPT !.clients[clientId].authenticated = FALSE], clientId,
                [type |-> "auth_failed", reason |-> "Invalid token"])

\* Mutant of Auth: a valid token flips the flag, so a repeated auth logs out.
Auth_Toggles(st, clientId, message) ==
    IF message.token \in validTokens
    THEN WsSend([st EXCEPT !.clients[clientId].authenticated = ~@], clientId,
                [type |-> "auth_success", clientId |-> clientId,
                 permissions |-> <<"create_tunnel", "ping", "stats">>])
    ELSE WsSend(st, clientId, [type |-> "auth_failed", reason |-> "Invalid token"])

Auth(st, clientId, message) ==
    IF message.token \in validTokens
    THEN WsSend([st EXCEPT !.clients[clientId].authenticated = TRUE], clientId,
                [type |-> "auth_success", clientId |-> clientId,
                 permissions |-> <<"create_tunnel", "ping", "stats">>])
    ELSE WsSend(st, clientId, [type |-> "auth_failed", reason |-> "Invalid token"])

Ping(st, clientId, message) ==
    WsSend(st, clientId,
           [type |-> "pong", timestamp |-> message.timestamp, serverTime |-> now,
            latency |-> now - message.timestamp])


\* Mutant of CreateTunnel: the authentication check is missing.
CreateTunnel_NoAuthCheck(st, clientId, message) ==
    LET t == FreshTunnelId(st)
        port == parseInt(message.targetPort)
        tunnel == TCPTunnel(clientId, message.targetHost, port, t)
    IN  IF ~LegalPort(port)
        THEN WsSend(st, clientId,
                    [type |-> "error",
                     message |-> <<"Failed to create tunnel: ", "ERR_SOCKET_BAD_PORT">>])
        ELSE [st EXCEPT !.tobj = (t :> tunnel) @@ @,
                        !.tunnels = @ \cup {t},
                        !.clients[clientId].tunnels = Append(@, t)]

\* Mutant of CreateTunnel: the tunnel is not added to the session's list.
CreateTunnel_NotListed(st, clientId, message) ==
    IF ~st.clients[clientId].authenticated
    THEN WsSend(st, clientId, [type |-> "error", message |-> <<"Authentication required">>])
    ELSE LET t == FreshTunnelId(st)
             port == parseInt(message.targetPort)
             tunnel == TCPTunnel(clientId, message.targetHost, port, t)
         IN  IF ~LegalPort(port)
             THEN WsSend(st, clientId,
                         [type |-> "error",
                          message |-> <<"Failed to create tunnel: ", "ERR_SOCKET_BAD_PORT">>])
             ELSE [st EXCEPT !.tobj = (t :> tunnel) @@ @,
                             !.tunnels = @ \cup {t}]

\* Mutant of CreateTunnel: the tunnel is registered before the authentication
\* check, which then only replies.
CreateTunnel_AuthAfterRegister(st, clientId, message) ==
    LET t == FreshTunnelId(st)
        port == parseInt(message.targetPort)
        tunnel == TCPTunnel(clientId, message.targetHost, port, t)
        s1 == IF ~LegalPort(port) THEN st
              ELSE [st EXCEPT !.tobj = (t :> tunnel) @@ @,
                              !.tunnels = @ \cup {t},
                              !.clients[clientId].tunnels = Append(@, t)]
    IN  IF ~st.clients[clientId].authenticated
        THEN WsSend(s1, clientId,
                    [type |-> "error", message |-> <<"Authentication required">>])
        ELSE IF ~LegalPort(port)
             THEN WsSend(st, clientId,
                         [type |-> "error",
                          message |-> <<"Failed to create tunnel: ", "ERR_SOCKET_BAD_PORT">>])
             ELSE s1

CreateTunnel(st, clientId, message) ==
    IF ~st.clients[clientId].authenticated
    THEN WsSend(st, clientId, [type |-> "error", message |-> <<"Authentication required">>])
    ELSE LET t == FreshTunnelId(st)
             port == parseInt(message.targetPort)
             tunnel == TCPTunnel(clientId, message.targetHost, port, t)
         IN  IF ~LegalPort(port)
             THEN \* the constructor throws out of connect(); the catch replies
                  WsSend(st, clientId,
                         [type |-> "error",
                          message |-> <<"Failed to create tunnel: ", "ERR_SOCKET_BAD_PORT">>])
             ELSE [st EXCEPT !.tobj = (t :> tunnel) @@ @,
                             !.tunnels = @ \cup {t},
                             !.clients[clientId].tunnels = Append(@, t)]


\* Mutant of TunnelData: the tunnel is looked up but its owner is not compared.
TunnelData_NoOwnerCheck(st, clientId, message) ==
    IF ~st.clients[clientId].authenticated THEN st
    ELSE IF message.tunnelId \in st.tunnels
         THEN LET decrypted == decrypt(message.data)
              IN  IF decrypted.ok THEN TunnelSend(st, message.tunnelId, decrypted.data)
                  ELSE st
         ELSE st

\* Mutant of TunnelData: a payload that does not decrypt closes the tunnel.
TunnelData_ClosesOnBadBlob(st, clientId, message) ==
    IF ~st.clients[clientId].authenticated THEN st
    ELSE IF message.tunnelId \in st.tunnels
            /\ st.tobj[message.tunnelId].clientId = clientId
         THEN LET decrypted == decrypt(message.data)
              IN  IF decrypted.ok THEN TunnelSend(st, message.tunnelId, decrypted.data)
                  ELSE TunnelClose(st, message.tunnelId)
         ELSE st

\* Mutant of TunnelData: a tunnel of another session is reported to the sender.
TunnelData_ReportsForeign(st, clientId, message) ==
    IF ~st.clients[clientId].authenticated THEN st
    ELSE IF message.tunnelId \in st.tunnels
         THEN IF st.tobj[message.tunnelId].clientId = clientId
              THEN LET decrypted == decrypt(message.data)
                   IN  IF decrypted.ok
                       THEN TunnelSend(st, message.tunnelId, decrypted.data)
                       ELSE st
              ELSE WsSend(st, clientId, [type |-> "error", message |-> <<"Not your tunnel">>])
         ELSE st

TunnelData(st, clientId, message) ==
    IF ~st.clients[clientId].authenticated THEN st
    ELSE IF message.tunnelId \in st.tunnels
            /\ st.tobj[message.tunnelId].clientId = clientId
         THEN LET decrypted == decrypt(message.data)
              IN  IF decrypted.ok THEN TunnelSend(st, message.tunnelId, decrypted.data)
                  ELSE st
         ELSE st

\* Mutant of CloseTunnel: the tunnel is looked up but its owner is not compared.
CloseTunnel_NoOwnerCheck(st, clientId, message) ==
    IF ~st.clients[clientId].authenticated THEN st
    ELSE IF message.tunnelId \in st.tunnels
         THEN LET s1 == TunnelClose(st, message.tunnelId)
              IN  [s1 EXCEPT !.clients[clientId].tunnels =
                                 SelectSeq(@, LAMBDA id : id # message.tunnelId)]
         ELSE st

CloseTunnel(st, clientId, message) ==
    IF ~st.clients[clientId].authenticated THEN st
    ELSE IF message.tunnelId \in st.tunnels
            /\ st.tobj[message.tunnelId].clientId = clientId
         THEN LET s1 == TunnelClose(st, message.tunnelId)
              IN  [s1 EXCEPT !.clients[clientId].tunnels =
                                 SelectSeq(@, LAMBDA id : id # message.tunnelId)]
         ELSE st

\* Mutant of Stats: ids whose tunnel left the registry are listed too.
Stats_ListsClosed(st, clientId, message) ==
    LET client == st.clients[clientId]
        clientTunnels == [i \in 1..Len(client.tunnels) |->
                             [id |-> st.tobj[client.tunnels[i]].tunnelId,
                              target |-> <<st.tobj[client.tunnels[i]].targetHost,
                                           st.tobj[client.tunnels[i]].targetPort>>]]
    IN  WsSend(st, clientId,
               [type |-> "client_stats", clientId |-> clientId,
                authenticated |-> client.authenticated, tunnels |-> clientTunnels,
                totalClients |-> Cardinality(DOMAIN st.clients),
                totalTunnels |-> Cardinality(st.tunnels)])

Stats(st, clientId, message) ==
    LET client == st.clients[clientId]
        live == SelectSeq(client.tunnels, LAMBDA id : id \in st.tunnels)
        clientTunnels == [i \in 1..Len(live) |->
                             [id |-> st.tobj[live[i]].tunnelId,
                              target |-> <<st.tobj[live[i]].targetHost,
                                           st.tobj[live[i]].targetPort>>]]
    IN  WsSend(st, clientId,
               [type |-> "client_stats", clientId |-> clientId,
                authenticated |-> client.authenticated, tunnels |-> clientTunnels,
                totalClients |-> Cardinality(DOMAIN st.clients),
                totalTunnels |-> Cardinality(st.tunnels)])


\* Mutant of HttpProxy: the authentication check is missing.
HttpProxy_NoAuthCheck(st, clientId, message) ==
    [st EXCEPT !.http[clientId] = @ + 1]

\* Up to the await: the outbound request is started and the handler suspends.
HttpProxy(st, clientId, message) ==
    IF ~st.clients[clientId].authenticated THEN st
    ELSE [st EXCEPT !.http[clientId] = @ + 1]

Unknown(st, clientId, message) ==
    WsSend(st, clientId,
           [type |-> "error", message |-> <<"Unknown command: ", message.type>>])

handleClientMessage(st, clientId, message) ==
    IF clientId \notin DOMAIN st.clients THEN st
    ELSE CASE message.type = "auth" -> Auth(st, clientId, message)
           [] message.type = "ping" -> Ping(st, clientId, message)
           [] message.type = "create_tunnel" -> CreateTunnel(st, clientId, message)
           [] message.type = "tunnel_data" -> TunnelData(st, clientId, message)
           [] message.type = "close_tunnel" -> CloseTunnel(st, clientId, message)
           [] message.type = "stats" -> Stats(st, clientId, message)
           [] message.type = "http_proxy" -> HttpProxy(st, clientId, message)
           [] OTHER -> Unknown(st, clientId, message)

\* The continuation of http_proxy after its await, on the captured client object.
HttpSettled(st, clientId, outcome) ==
    LET s1 == [st EXCEPT !.http[clientId] = @ - 1]
    IN  IF outcome = "resolved"
        THEN WsSend(s1, clientId, [type |-> "http_response", status |-> 200])
        ELSE WsSend(s1, clientId, [type |-> "error", message |-> <<"HTTP proxy failed: ">>])

\* ------------------------------------------------------- wss.on('connection')
FreshClientId == Cardinality({c \in ClientIds : ws[c] # "none"}) + 1

\* Mutant of the connection handler: the session is registered and not greeted.
OnConnection_NoWelcome(st, clientId) ==
    LET clientInfo == [id |-> clientId, authenticated |-> FALSE, tunnels |-> <<>>]
    IN  [st EXCEPT !.ws[clientId] = "open",
                   !.clients = (clientId :> clientInfo) @@ @]

OnConnection(st, clientId) ==
    LET clientInfo == [id |-> clientId, authenticated |-> FALSE, tunnels |-> <<>>]
        s1 == [st EXCEPT !.ws[clientId] = "open",
                         !.clients = (clientId :> clientInfo) @@ @]
    IN  WsSend(s1, clientId, [type |-> "welcome", clientId |-> clientId])

RECURSIVE CloseEach(_, _)
CloseEach(st, ids) ==
    IF ids = <<>> THEN st
    ELSE CloseEach(IF Head(ids) \in st.tunnels THEN TunnelClose(st, Head(ids)) ELSE st,
                   Tail(ids))


\* Mutant of OnWsClose: the session is removed without closing its tunnels.
OnWsClose_TunnelsLeft(st, clientId) ==
    [st EXCEPT !.ws[clientId] = "closed", !.clients = Without(@, clientId)]

\* ws.on('close'): the transport is closed when the handler runs.
OnWsClose(st, clientId) ==
    LET s1 == [st EXCEPT !.ws[clientId] = "closed"]
        s2 == CloseEach(s1, s1.clients[clientId].tunnels)
    IN  [s2 EXCEPT !.clients = Without(@, clientId)]

\* ws.on('message') with data that JSON.parse rejects: the catch only logs.
OnUnparsed(st, clientId) == st

\* ------------------------------------------------------ outbound socket events
\* Mutant of the connect callback: `tunnel_open` is sent twice.
OnSockConnect_OpensTwice(st, t) ==
    LET s1 == [st EXCEPT !.tobj[t].tcpSocket = "open", !.tobj[t].writableLength = 0]
        open == [type |-> "tunnel_open", tunnelId |-> t,
                 target |-> <<st.tobj[t].targetHost, st.tobj[t].targetPort>>]
    IN  WsSend(WsSend(s1, st.tobj[t].clientId, open), st.tobj[t].clientId, open)

\* The connect callback; the chunks queued while connecting are flushed.
OnSockConnect(st, t) ==
    LET s1 == [st EXCEPT !.tobj[t].tcpSocket = "open", !.tobj[t].writableLength = 0]
    IN  WsSend(s1, st.tobj[t].clientId,
               [type |-> "tunnel_open", tunnelId |-> t,
                target |-> <<st.tobj[t].targetHost, st.tobj[t].targetPort>>])

\* Mutant of the 'data' handler: the chunk is not forwarded.
OnSockData_Drops(st, t, data) == st

OnSockData(st, t, data) ==
    WsSend(st, st.tobj[t].clientId,
           [type |-> "tunnel_data", tunnelId |-> t, data |-> encrypt(data)])

\* Mutant of the 'error' handler: the connection is attempted again.
OnSockError_Reconnects(st, t) ==
    [st EXCEPT !.tobj[t].tcpSocket = "connecting"]

\* 'error': the socket is already being destroyed; its 'close' event follows.
OnSockError(st, t) ==
    TunnelClose([st EXCEPT !.tobj[t].tcpSocket = "destroyed"], t)

\* Mutant of the 'close' handler: every tunnel of the owner is closed.
OnSockClose_ClosesSiblings(st, t) ==
    LET s1 == TunnelClose([st EXCEPT !.tobj[t].tcpSocket = "closed"], t)
        owner == st.tobj[t].clientId
    IN  IF owner \in DOMAIN s1.clients THEN CloseEach(s1, s1.clients[owner].tunnels) ELSE s1

\* 'close': after destroy(), or when the peer ended the connection.
OnSockClose(st, t) ==
    TunnelClose([st EXCEPT !.tobj[t].tcpSocket = "closed"], t)

\* ------------------------------------------------------------ cleanup timer
\* now - tunnel.createdAt > 3600000, false when the object has no such field.
Expired(tunnel, time) ==
    /\ "createdAt" \in DOMAIN tunnel
    /\ time - tunnel.createdAt > MaxTunnelAge

RECURSIVE SweepEach(_, _, _)
SweepEach(st, ids, time) ==
    IF ids = {} THEN st
    ELSE LET t == CHOOSE x \in ids : \A y \in ids : x <= y
         IN  SweepEach(IF t \in st.tunnels /\ Expired(st.tobj[t], time)
                       THEN TunnelClose(st, t) ELSE st,
                       ids \ {t}, time)

OnCleanup(st, time) == SweepEach(st, st.tunnels, time)

\* ------------------------------------------- SimpleEncryption (raw stream)
\* Buffers are sequences of bytes.
IvLength == 12
TagLength == 16
MinBlobLength == 28

RawKeys == {"SERVER_KEY", "CLIENT_KEY", "OTHER_KEY"}
IvSeeds == {3, 200}        \* crypto.randomBytes(12), by its first byte

\* The byte a key contributes to the key stream and to the tag.
KeyByte(key) ==
    CASE key = "SERVER_KEY" -> 11
      [] key = "CLIENT_KEY" -> 23
      [] OTHER -> 37

RECURSIVE Sum(_)
Sum(bytes) == IF bytes = <<>> THEN 0 ELSE Head(bytes) + Sum(Tail(bytes))

RandomBytes(seed) == [i \in 1..IvLength |-> (seed + i) % 256]

\* aes-256-gcm: a key stream that key and iv determine, and a tag over the
\* ciphertext that key and iv determine.
KeyStream(key, iv, i) == (KeyByte(key) * 5 + iv[1] + i) % 256

AuthTag(key, iv, encrypted) ==
    [j \in 1..TagLength |-> (KeyByte(key) * 7 + Sum(iv) + Sum(encrypted) + j) % 256]

\* SimpleEncryption.encrypt, with the iv it draws: iv, authTag, ciphertext.
SimpleEncrypt(data, key, iv) ==
    LET encrypted == [i \in 1..Len(data) |-> (data[i] + KeyStream(key, iv, i)) % 256]
    IN  iv \o AuthTag(key, iv, encrypted) \o encrypted

Failed == [ok |-> FALSE, data |-> <<>>]

\* Mutant of SimpleEncryption.decrypt: the tag is not verified.
SimpleDecrypt_NoTagCheck(encryptedData, key) ==
    IF Len(encryptedData) < MinBlobLength THEN Failed
    ELSE LET iv == SubSeq(encryptedData, 1, IvLength)
             data == SubSeq(encryptedData, MinBlobLength + 1, Len(encryptedData))
         IN  [ok |-> TRUE,
              data |-> [i \in 1..Len(data) |-> (data[i] - KeyStream(key, iv, i)) % 256]]

\* SimpleEncryption.decrypt; ok = FALSE when it throws.
SimpleDecrypt(encryptedData, key) ==
    IF Len(encryptedData) < MinBlobLength THEN Failed
    ELSE LET iv == SubSeq(encryptedData, 1, IvLength)
             authTag == SubSeq(encryptedData, IvLength + 1, IvLength + TagLength)
             data == SubSeq(encryptedData, MinBlobLength + 1, Len(encryptedData))
         IN  IF authTag # AuthTag(key, iv, data) THEN Failed
             ELSE [ok |-> TRUE,
                   data |-> [i \in 1..Len(data) |-> (data[i] - KeyStream(key, iv, i)) % 256]]

\* The byte sequences of length at most n over two byte values.
RECURSIVE BytesUpTo(_)
BytesUpTo(n) ==
    IF n = 0 THEN {<<>>}
    ELSE BytesUpTo(n - 1) \cup
         {Append(b, x) : b \in {y \in BytesUpTo(n - 1) : Len(y) = n - 1}, x \in {0, 72}}

CipherPayloads == BytesUpTo(MaxPayloadLen)

NoCipher == [stage |-> "idle", m |-> <<>>, k |-> "SERVER_KEY", k2 |-> "SERVER_KEY",
             seed |-> 3, blob |-> <<>>, same |-> Failed, other |-> Failed,
             vsame |-> Failed, vother |-> Failed]

\* ------------------------------------------------- VPNServerTCP (raw stream)
\* 'VPN_HANDSHAKE_1.0' and 'VPN_WELCOME_1.0'
HANDSHAKE_MAGIC == <<86, 80, 78, 95, 72, 65, 78, 68, 83, 72, 65, 75, 69, 95, 49, 46, 48>>
HANDSHAKE_RESPONSE == <<86, 80, 78, 95, 87, 69, 76, 67, 79, 77, 69, 95, 49, 46, 48>>

EchoPrefix == <<69, 99, 104, 111, 58, 32>>      \* 'Echo: '

\* The static methods the class SimpleEncryption has.
SimpleEncryptionMethods == {"encrypt", "decrypt"}

RawPayloads == {<<72, 105>>, <<79, 75, 33>>}    \* 'Hi', 'OK!'

\* The deliveries in which `bytes` arrive when the stream is cut after byte p.
Fragments(bytes, p) ==
    IF p <= 0 \/ p >= Len(bytes) THEN <<bytes>>
    ELSE <<SubSeq(bytes, 1, p), SubSeq(bytes, p + 1, Len(bytes))>>

MagicCuts == {0, 5, 16}
BlobCuts == {0, 10, 29}

NoRaw == [sock |-> "none", registered |-> FALSE, handshakeComplete |-> FALSE,
          buffer |-> <<>>, timer |-> "none", out |-> <<>>, flight |-> <<>>,
          phase |-> "idle", payload |-> <<>>, pieces |-> 0]

\* socket.destroy(): nothing more is delivered.
RawDestroy(conn) == [conn EXCEPT !.sock = "destroyed", !.flight = <<>>]

\* Mutant of handleHandshake: the magic is compared before 17 bytes arrived.
handleHandshake_NoWait(conn, iv) ==
    IF \/ Len(conn.buffer) < Len(HANDSHAKE_MAGIC)
       \/ SubSeq(conn.buffer, 1, Len(HANDSHAKE_MAGIC)) # HANDSHAKE_MAGIC
    THEN RawDestroy(conn)
    ELSE IF "rypt" \notin SimpleEncryptionMethods
         THEN RawDestroy(conn)
         ELSE [conn EXCEPT
                  !.out = Append(@, SimpleEncrypt(HANDSHAKE_RESPONSE, "SERVER_KEY", iv)),
                  !.handshakeComplete = TRUE,
                  !.buffer = SubSeq(@, Len(HANDSHAKE_MAGIC) + 1, Len(@))]

\* handleHandshake, on the buffer the 'data' handler has extended.
handleHandshake(conn, iv) ==
    IF Len(conn.buffer) < Len(HANDSHAKE_MAGIC) THEN conn
    ELSE IF SubSeq(conn.buffer, 1, Len(HANDSHAKE_MAGIC)) # HANDSHAKE_MAGIC
         THEN RawDestroy(conn)
         ELSE IF "rypt" \notin SimpleEncryptionMethods
              THEN \* SimpleEncryption.rypt is not a function: the catch destroys
                   RawDestroy(conn)
              ELSE [conn EXCEPT
                       !.out = Append(@, SimpleEncrypt(HANDSHAKE_RESPONSE, "SERVER_KEY", iv)),
                       !.handshakeComplete = TRUE,
                       !.buffer = SubSeq(@, Len(HANDSHAKE_MAGIC) + 1, Len(@))]

\* handleClientData on the whole buffer, then the buffer is emptied; a failed
\* decryption is rethrown and the 'data' handler destroys the socket.
handleClientData(conn, iv) ==
    LET decrypted == SimpleDecrypt(conn.buffer, "CLIENT_KEY")
    IN  IF ~decrypted.ok THEN RawDestroy(conn)
        ELSE [conn EXCEPT
                 !.out = Append(@, SimpleEncrypt(EchoPrefix \o decrypted.data,
                                                 "SERVER_KEY", iv)),
                 !.buffer = <<>>]

\* Mutant of the 'data' handler: the data is handled whatever the flag says.
OnRawData_NoHandshake(conn, data, iv) ==
    handleClientData([conn EXCEPT !.buffer = @ \o data], iv)

\* socket.on('data')
OnRawData(conn, data, iv) ==
    LET c1 == [conn EXCEPT !.buffer = @ \o data]
    IN  IF ~c1.handshakeComplete THEN handleHandshake(c1, iv)
        ELSE handleClientData(c1, iv)

\* Mutant of the handshake timer: it destroys nothing.
OnHandshakeTimeout_NoDestroy(conn) == conn

\* The callback of the handshake timer.
OnHandshakeTimeout(conn) ==
    IF ~conn.handshakeComplete THEN RawDestroy(conn) ELSE conn

\* The first bytes of a client that skips the handshake: a blob under the
\* client key.
FirstBlob == SimpleEncrypt(<<72, 105>>, "CLIENT_KEY", RandomBytes(3))

\* ------------------------------------------------- SimpleCipher (plain TCP)
BlockLength == 16          \* the block of aes-256-cbc, and the length of its iv

CbcKeyByte(key) == IF key = "SHARED_KEY" THEN 41 ELSE 59

CbcIv(seed) == [i \in 1..BlockLength |-> (seed + 3 * i) % 256]

\* The padding cipher.final() adds: 1..16 bytes, each the count added.
Pad(data) ==
    LET p == BlockLength - (Len(data) % BlockLength)
    IN  data \o [i \in 1..p |-> p]

\* aes-256-cbc under `key`: every block is chained to the block before it, the
\* first one to the iv. The result is the iv, then the blocks.
CbcEncrypt(data, key, iv) ==
    LET padded == Pad(data)
        enc[i \in 1..Len(padded)] ==
            (padded[i] + CbcKeyByte(key)
                + IF i <= BlockLength THEN iv[i] ELSE enc[i - BlockLength]) % 256
    IN  iv \o [i \in 1..Len(padded) |-> enc[i]]

\* SimpleCipher.encrypt, with the iv it draws.
SimpleCipherEncrypt(data, iv) == CbcEncrypt(data, "SHARED_KEY", iv)

\* SimpleCipher.decrypt: null (ok = FALSE) when the iv is short, the blocks are
\* not whole, or the padding of the last block is bad.
SimpleCipherDecrypt(data) ==
    IF Len(data) < 2 * BlockLength \/ Len(data) % BlockLength # 0 THEN Failed
    ELSE LET n == Len(data) - BlockLength
             dec == [i \in 1..n |->
                        (data[BlockLength + i] - CbcKeyByte("SHARED_KEY") - data[i]) % 256]
             p == dec[n]
         IN  IF p < 1 \/ p > BlockLength \/ \E i \in (n - p + 1)..n : dec[i] # p
             THEN Failed
             ELSE [ok |-> TRUE, data |-> SubSeq(dec, 1, n - p)]

\* ------------------------------------------------- VPNServer (plain TCP)
\* 'Welcome to Oregon VPN Server\nRegion: Oregon (US West)\n'
WelcomeMsg ==
    <<87, 101, 108, 99, 111, 109, 101, 32, 116, 111, 32, 79, 114, 101, 103, 111, 110, 32,
      86, 80, 78, 32, 83, 101, 114, 118, 101, 114, 10, 82, 101, 103, 105, 111, 110, 58, 32,
      79, 114, 101, 103, 111, 110, 32, 40, 85, 83, 32, 87, 101, 115, 116, 41, 10>>

\* The response up to the message, and from the message to the server time.
ResponsePrefix ==
    <<226, 156, 133, 32, 208, 159, 208, 190, 208, 187, 209, 131, 209, 135, 208, 181, 208,
      189, 208, 190, 58, 32, 34>>
TimePrefix ==
    <<34, 10, 240, 159, 149, 146, 32, 208, 146, 209, 128, 208, 181, 208, 188, 209, 143, 32,
      209, 129, 208, 181, 209, 128, 208, 178, 208, 181, 209, 128, 208, 176, 58, 32>>

\* new Date().toISOString() at the one clock value of these runs.
ServerTime ==
    <<50, 48, 50, 52, 45, 48, 49, 45, 48, 49, 84, 48, 48, 58, 48, 48, 58, 48, 48, 46, 48,
      48, 48, 90>>

Response(message) == ResponsePrefix \o message \o TimePrefix \o ServerTime \o <<10>>

WhiteSpace == {9, 10, 11, 12, 13, 32}

\* String.prototype.trim
RECURSIVE trim(_)
trim(text) ==
    IF text = <<>> THEN text
    ELSE IF Head(text) \in WhiteSpace THEN trim(Tail(text))
    ELSE IF text[Len(text)] \in WhiteSpace THEN trim(SubSeq(text, 1, Len(text) - 1))
    ELSE text

\* String.prototype.toLowerCase, on the ASCII letters
toLowerCase(text) ==
    [i \in 1..Len(text) |-> IF text[i] >= 65 /\ text[i] <= 90 THEN text[i] + 32 ELSE text[i]]

ExitText == <<101, 120, 105, 116>>              \* 'exit'

NoPlain == [sock |-> "none", registered |-> FALSE, out |-> <<>>, bytesReceived |-> 0,
            bytesSent |-> 0, deliveries |-> 0, lastIn |-> <<>>]

\* socket.write: after end() the write fails with an 'error' that destroys the
\* socket, and nothing is sent; on a destroyed socket nothing happens.
PlainWrite(conn, bytes) ==
    CASE conn.sock = "open" -> [conn EXCEPT !.out = Append(@, bytes)]
      [] conn.sock = "ended" -> [conn EXCEPT !.sock = "destroyed"]
      [] OTHER -> conn

\* socket.end(): the server's side of the stream is finished; data still arrives.
PlainEnd(conn) == IF conn.sock = "open" THEN [conn EXCEPT !.sock = "ended"] ELSE conn

\* VPNServer.handleConnection
handleConnection(conn, iv) ==
    LET c1 == PlainWrite([conn EXCEPT !.sock = "open"], SimpleCipherEncrypt(WelcomeMsg, iv))
    IN  [c1 EXCEPT !.registered = TRUE, !.bytesReceived = 0, !.bytesSent = 0]

\* VPNServer.handleData
handleData(conn, data, iv) ==
    IF ~conn.registered THEN conn
    ELSE LET c1 == [conn EXCEPT !.bytesReceived = @ + Len(data)]
             decrypted == SimpleCipherDecrypt(data)
         IN  IF ~decrypted.ok THEN c1
             ELSE LET message == trim(decrypted.data)
                      encryptedResponse == SimpleCipherEncrypt(Response(message), iv)
                      c2 == [PlainWrite(c1, encryptedResponse)
                                EXCEPT !.bytesSent = @ + Len(encryptedResponse)]
                  IN  IF toLowerCase(message) = ExitText THEN PlainEnd(c2) ELSE c2

\* socket.on('close')
OnPlainClose(conn) == [conn EXCEPT !.sock = "closed", !.registered = FALSE]

\* ---------------------------------------------------------------- actions
Event(op, client, tunnel, message, authed) ==
    [op |-> op, client |-> client, tunnel |-> tunnel, message |-> message,
     authed |-> authed, chunk |-> ""]

Delivered(log, t) ==
    Cardinality({i \in 1..Len(log) : /\ log[i].delivered
                                     /\ log[i].msg.type = "tunnel_close"
                                     /\ log[i].msg.tunnelId = t})

\* Store the heap a handler returned, and extend the histories.
Store(st, ev) ==
    /\ clients' = st.clients
    /\ tunnels' = st.tunnels
    /\ tobj' = st.tobj
    /\ ws' = st.ws
    /\ http' = st.http
    /\ sent' = st.sent
    /\ wrote' = st.wrote
    /\ last' = ev
    /\ closeSent' = [t \in TunnelIds |-> closeSent[t] + Delivered(st.sent, t)]
    /\ born' = [t \in TunnelIds |->
                   IF t \in DOMAIN st.tobj /\ t \notin DOMAIN tobj THEN now ELSE born[t]]
    /\ opened' = opened \cup {st.sent[i].msg.tunnelId :
                                 i \in {j \in 1..Len(st.sent) :
                                           st.sent[j].msg.type = "tunnel_open"}}
    /\ connectFailed' = connectFailed \cup
                            {t \in DOMAIN tobj : /\ ev.op = "sock_error"
                                                  /\ ev.tunnel = t
                                                  /\ tobj[t].tcpSocket = "connecting"}

InitBroker ==
    /\ clients = <<>>
    /\ tunnels = {}
    /\ tobj = <<>>
    /\ ws = [c \in ClientIds |-> "none"]
    /\ http = [c \in ClientIds |-> 0]
    /\ now = 0
    /\ ticks = 0
    /\ sent = <<>>
    /\ wrote = <<>>
    /\ last = Event("init", 0, 0, NoMessage, FALSE)
    /\ closeSent = [t \in TunnelIds |-> 0]
    /\ born = [t \in TunnelIds |-> 0]
    /\ opened = {}
    /\ connectFailed = {}

Init ==
    /\ InitBroker
    /\ cipher = NoCipher
    /\ raw = NoRaw
    /\ plain = NoPlain

Connect ==
    /\ FreshClientId \in ClientIds
    /\ Store(OnConnection(Heap, FreshClientId),
             Event("connection", FreshClientId, 0, NoMessage, FALSE))
    /\ UNCHANGED <<now, ticks, cipher, raw, plain>>

RECURSIVE Pending(_)
Pending(cs) ==
    IF cs = {} THEN 0
    ELSE LET c == CHOOSE x \in cs : TRUE IN http[c] + Pending(cs \ {c})

\* ws.on('message') with a message that parses.
Receive(c, m) ==
    /\ ws[c] = "open"
    /\ (m.type = "create_tunnel" /\ clients[c].authenticated
            /\ LegalPort(parseInt(m.targetPort)))
           => Cardinality(DOMAIN tobj) < MaxTunnels
    /\ m.type = "http_proxy" /\ clients[c].authenticated => Pending(ClientIds) < MaxHttp
    /\ (/\ m.type = "tunnel_data" /\ clients[c].authenticated
        /\ m.tunnelId \in tunnels /\ tobj[m.tunnelId].clientId = c
        /\ decrypt(m.data).ok)
           => tobj[m.tunnelId].writableLength < MaxBuffered
    /\ Store(handleClientMessage(Heap, c, m),
             Event("message", c, 0, m, clients[c].authenticated))
    /\ UNCHANGED <<now, ticks, cipher, raw, plain>>

ReceiveUnparsed(c) ==
    /\ ws[c] = "open"
    /\ Store(OnUnparsed(Heap, c), Event("unparsed", c, 0, NoMessage, clients[c].authenticated))
    /\ UNCHANGED <<now, ticks, cipher, raw, plain>>

HttpDone(c, outcome) ==
    /\ http[c] > 0
    /\ Store(HttpSettled(Heap, c, outcome), Event("http", c, 0, NoMessage, FALSE))
    /\ UNCHANGED <<now, ticks, cipher, raw, plain>>

Disconnect(c) ==
    /\ ws[c] = "open"
    /\ Store(OnWsClose(Heap, c), Event("ws_close", c, 0, NoMessage, clients[c].authenticated))
    /\ UNCHANGED <<now, ticks, cipher, raw, plain>>

SockConnect(t) ==
    /\ t \in DOMAIN tobj
    /\ tobj[t].tcpSocket = "connecting"
    /\ Store(OnSockConnect(Heap, t), Event("sock_connect", tobj[t].clientId, t, NoMessage, FALSE))
    /\ UNCHANGED <<now, ticks, cipher, raw, plain>>

SockData(t, data) ==
    /\ t \in DOMAIN tobj
    /\ tobj[t].tcpSocket = "open"
    /\ Store(OnSockData(Heap, t, data),
             [Event("sock_data", tobj[t].clientId, t, NoMessage, FALSE) EXCEPT !.chunk = data])
    /\ UNCHANGED <<now, ticks, cipher, raw, plain>>

SockError(t) ==
    /\ t \in DOMAIN tobj
    /\ tobj[t].tcpSocket \in {"connecting", "open"}
    /\ Store(OnSockError(Heap, t), Event("sock_error", tobj[t].clientId, t, NoMessage, FALSE))
    /\ UNCHANGED <<now, ticks, cipher, raw, plain>>

SockClose(t) ==
    /\ t \in DOMAIN tobj
    /\ tobj[t].tcpSocket \in {"open", "destroyed"}
    /\ Store(OnSockClose(Heap, t), Event("sock_close", tobj[t].clientId, t, NoMessage, FALSE))
    /\ UNCHANGED <<now, ticks, cipher, raw, plain>>

\* The 'close' event that follows destroy().
SockCloseAfterDestroy(t) ==
    /\ t \in DOMAIN tobj
    /\ tobj[t].tcpSocket = "destroyed"
    /\ SockClose(t)

Cleanup ==
    /\ Store(OnCleanup(Heap, now), Event("cleanup", 0, 0, NoMessage, FALSE))
    /\ UNCHANGED <<now, ticks, cipher, raw, plain>>

Tick(dt) ==
    /\ ticks < MaxTicks
    /\ now' = now + dt
    /\ ticks' = ticks + 1
    /\ sent' = <<>>
    /\ wrote' = <<>>
    /\ last' = Event("tick", 0, 0, NoMessage, FALSE)
    /\ UNCHANGED <<clients, tunnels, tobj, ws, http, closeSent, born, opened, connectFailed,
                   cipher, raw, plain>>

Next ==
    \/ Connect
    \/ \E c \in ClientIds, m \in Messages : Receive(c, m)
    \/ \E c \in ClientIds : ReceiveUnparsed(c)
    \/ \E c \in ClientIds, outcome \in {"resolved", "rejected"} : HttpDone(c, outcome)
    \/ \E c \in ClientIds : Disconnect(c)
    \/ \E t \in TunnelIds : SockConnect(t)
    \/ \E t \in TunnelIds, data \in Chunks : SockData(t, data)
    \/ \E t \in TunnelIds : SockError(t)
    \/ \E t \in TunnelIds : SockClose(t)
    \/ Cleanup

Spec == Init /\ [][Next]_vars

\* The broker with a clock that advances between callbacks.
NextClock ==
    \/ Next
    \/ \E dt \in TimeSteps : Tick(dt)

SpecClock == Init /\ [][NextClock]_vars

\* The broker under the scheduling the runtime guarantees: the cleanup timer
\* keeps firing, and a destroyed socket gets its 'close' event. Nothing makes a
\* client send, a target answer a connect, or an HTTP server respond.
SpecFair ==
    /\ Init
    /\ [][Next]_vars
    /\ WF_vars(Cleanup)
    /\ \A t \in TunnelIds : WF_vars(SockCloseAfterDestroy(t))

\* The broker with clients that also send create_tunnel with a malformed target.
NextMalformed ==
    \/ Next
    \/ \E c \in ClientIds, m \in MalformedCreates : Receive(c, m)

SpecMalformed == Init /\ [][NextMalformed]_vars

\* The broker with two tunnels at once: sessions authenticate, create and close
\* tunnels and disconnect, and every outbound socket event can happen.
PairMessages ==
    {Message("auth", "client123", 0, 0, NoBlob, "", "")}
    \cup {Message("create_tunnel", "", 0, 0, NoBlob, h, p) : h \in Hosts, p \in Ports}
    \cup {Message("close_tunnel", "", 0, t, NoBlob, "", "") : t \in PairIds}

ReceivePair(c, m) ==
    /\ ws[c] = "open"
    /\ m.type = "create_tunnel" /\ clients[c].authenticated
           => Cardinality(DOMAIN tobj) < Cardinality(PairIds)
    /\ Store(handleClientMessage(Heap, c, m),
             Event("message", c, 0, m, clients[c].authenticated))
    /\ UNCHANGED <<now, ticks, cipher, raw, plain>>

NextPair ==
    \/ Connect
    \/ \E c \in ClientIds, m \in PairMessages : ReceivePair(c, m)
    \/ \E c \in ClientIds : Disconnect(c)
    \/ \E t \in PairIds : SockConnect(t)
    \/ \E t \in PairIds : SockData(t, "c1")
    \/ \E t \in PairIds : SockError(t)
    \/ \E t \in PairIds : SockClose(t)
    \/ Cleanup

SpecPair == Init /\ [][NextPair]_vars



\* ------------------------------------------------ the cipher on chosen inputs
brokerVars == <<clients, tunnels, tobj, ws, http, now, ticks, sent, wrote, last,
                closeSent, born, opened, connectFailed>>

InitCipher ==
    /\ InitBroker
    /\ raw = NoRaw
    /\ plain = NoPlain
    /\ cipher \in {[NoCipher EXCEPT !.stage = "input", !.m = m, !.k = k, !.k2 = k2,
                                    !.seed = seed] :
                      m \in CipherPayloads, k \in RawKeys, k2 \in RawKeys, seed \in IvSeeds}

CipherEncrypt ==
    /\ cipher.stage = "input"
    /\ cipher' = [cipher EXCEPT !.stage = "encrypted",
                                !.blob = SimpleEncrypt(cipher.m, cipher.k,
                                                       RandomBytes(cipher.seed))]
    /\ UNCHANGED <<brokerVars, raw, plain>>

\* Both decryptions of the blob, and VPNEncryption on the same payload and on a
\* blob made under another ENCRYPTION_KEY.
CipherDecrypt ==
    /\ cipher.stage = "encrypted"
    /\ \E vk \in Keys \ {ENCRYPTION_KEY} :
          cipher' = [cipher EXCEPT !.stage = "decrypted",
                                   !.same = SimpleDecrypt(cipher.blob, cipher.k),
                                   !.other = SimpleDecrypt(cipher.blob, cipher.k2),
                                   !.vsame = decrypt(encrypt(cipher.m)),
                                   !.vother = decrypt([key |-> vk, pt |-> cipher.m])]
    /\ UNCHANGED <<brokerVars, raw, plain>>

NextCipher == CipherEncrypt \/ CipherDecrypt

SpecCipher == InitCipher /\ [][NextCipher]_vars

\* ------------------------------------------------ the raw-stream server
\* handleConnection: the state is registered and the handshake timer armed.
RawAccept ==
    /\ raw.sock = "none"
    /\ raw' = [raw EXCEPT !.sock = "open", !.registered = TRUE, !.timer = "armed"]
    /\ UNCHANGED <<brokerVars, cipher, plain>>

\* The client writes the handshake magic, or other bytes of that length.
RawClientHandshake(bytes, cut) ==
    /\ raw.sock = "open"
    /\ raw.phase = "idle"
    /\ raw' = [raw EXCEPT !.flight = @ \o Fragments(bytes, cut),
                          !.phase = IF bytes = HANDSHAKE_MAGIC THEN "handshake" ELSE "garbage",
                          !.pieces = Len(Fragments(bytes, cut))]
    /\ UNCHANGED <<brokerVars, cipher, plain>>

\* The client writes one blob encrypted under the client key; the stream
\* delivers it whole or cut in two.
RawClientBlob(payload, seed, cut) ==
    /\ raw.sock = "open"
    /\ raw.phase = "handshake"
    /\ LET deliveries == Fragments(SimpleEncrypt(payload, "CLIENT_KEY", RandomBytes(seed)), cut)
       IN  raw' = [raw EXCEPT !.flight = @ \o deliveries, !.phase = "blob",
                              !.payload = payload, !.pieces = Len(deliveries)]
    /\ UNCHANGED <<brokerVars, cipher, plain>>

RawData(seed) ==
    /\ raw.sock = "open"
    /\ raw.flight # <<>>
    /\ raw' = OnRawData([raw EXCEPT !.flight = Tail(@)], Head(raw.flight), RandomBytes(seed))
    /\ UNCHANGED <<brokerVars, cipher, plain>>

\* The handshake timer, 10 s after the connection.
RawTimeout ==
    /\ raw.timer = "armed"
    /\ raw' = [OnHandshakeTimeout(raw) EXCEPT !.timer = "fired"]
    /\ UNCHANGED <<brokerVars, cipher, plain>>

\* socket.on('close') after destroy(); the client of this model does not hang up.
RawSockClose ==
    /\ raw.sock = "destroyed"
    /\ raw' = [raw EXCEPT !.sock = "closed", !.registered = FALSE,
                          !.timer = IF @ = "armed" THEN "cleared" ELSE @]
    /\ UNCHANGED <<brokerVars, cipher, plain>>

WrongMagic == [i \in 1..Len(HANDSHAKE_MAGIC) |-> 88]

NextRaw ==
    \/ RawAccept
    \/ \E bytes \in {HANDSHAKE_MAGIC, WrongMagic, FirstBlob}, cut \in MagicCuts :
          RawClientHandshake(bytes, cut)
    \/ \E payload \in RawPayloads, seed \in IvSeeds, cut \in BlobCuts :
          RawClientBlob(payload, seed, cut)
    \/ \E seed \in IvSeeds : RawData(seed)
    \/ RawTimeout
    \/ RawSockClose

SpecRaw == Init /\ [][NextRaw]_vars


\* ------------------------------------------------ the plain TCP server
MaxDeliveries == 3         \* 'data' events on the connection over a run

\* What a client writes in one delivery: 'Hi', 'exit', 'EXIT' and a newline
\* under the shared key, a blob under another key, and five stray bytes.
PlainInputs ==
    {CbcEncrypt(text, "SHARED_KEY", CbcIv(7)) :
        text \in {<<72, 105>>, ExitText, <<69, 88, 73, 84, 10>>}}
    \cup {CbcEncrypt(<<72, 105>>, "OTHER_KEY", CbcIv(7)), <<1, 2, 3, 4, 5>>}

PlainAccept(seed) ==
    /\ plain.sock = "none"
    /\ plain' = handleConnection(plain, CbcIv(seed))
    /\ UNCHANGED <<brokerVars, cipher, raw>>

PlainData(data, seed) ==
    /\ plain.sock \in {"open", "ended"}
    /\ plain.deliveries < MaxDeliveries
    /\ plain' = [handleData(plain, data, CbcIv(seed))
                    EXCEPT !.deliveries = @ + 1, !.lastIn = data]
    /\ UNCHANGED <<brokerVars, cipher, raw>>

\* 'close': the client hung up, or the socket was destroyed.
PlainClose ==
    /\ plain.sock \in {"open", "ended", "destroyed"}
    /\ plain' = OnPlainClose(plain)
    /\ UNCHANGED <<brokerVars, cipher, raw>>

NextPlain ==
    \/ \E seed \in IvSeeds : PlainAccept(seed)
    \/ \E data \in PlainInputs, seed \in IvSeeds : PlainData(data, seed)
    \/ PlainClose

SpecPlain == Init /\ [][NextPlain]_vars


\* ---------------------------------------------------------------- claims
IsReceive(ev, types) == ev.op = "message" /\ ev.message.type \in types

GuardedTypes == {"create_tunnel", "tunnel_data", "close_tunnel", "stats", "http_proxy"}

\* C1: bytes are written to a tunnel's outbound connection only while a message
\* of the session that created the tunnel is dispatched; nothing another session
\* sends is ever written to it.
C1_OnlyOwnerWrites ==
    [][\A i \in 1..Len(wrote') :
          /\ last'.op = "message"
          /\ tobj'[wrote'[i].tunnelId].clientId = last'.client]_vars

\* An authenticated session sends a decryptable tunnel_data naming a live tunnel
\* of another session, and nothing is written.
C1_Witness ==
    /\ IsReceive(last, {"tunnel_data"})
    /\ last.authed
    /\ decrypt(last.message.data).ok
    /\ last.message.tunnelId \in tunnels
    /\ tobj[last.message.tunnelId].clientId # last.client
    /\ ~Destroyed(tobj[last.message.tunnelId].tcpSocket)
    /\ wrote = <<>>

\* C2: a create_tunnel, tunnel_data, close_tunnel, stats or http_proxy from a
\* session that is not authenticated is answered with exactly one message, of
\* type error.
C2_PreAuthAnsweredWithError ==
    (IsReceive(last, GuardedTypes) /\ ~last.authed)
        => /\ Len(sent) = 1
           /\ sent[1].to = last.client
           /\ sent[1].msg.type = "error"

\* C3: handling a message other than auth from a session that is not
\* authenticated changes neither registry, no tunnel list, no flag, and starts no
\* outbound connection and no outbound HTTP request.
C3_PreAuthNoSideEffects ==
    [][(last'.op = "message" /\ last'.message.type # "auth" /\ ~last'.authed)
          => /\ clients' = clients
             /\ tunnels' = tunnels
             /\ tobj' = tobj
             /\ http' = http
             /\ wrote' = <<>>]_vars

\* An unauthenticated session has asked for an HTTP request while another
\* session's tunnel is live.
C3_Witness ==
    /\ IsReceive(last, {"http_proxy"})
    /\ ~last.authed
    /\ tunnels # {}

MentionsAuthentication(text) ==
    \E i \in 1..Len(text) : text[i] \in {"Authentication required"}

\* C4: create_tunnel from a session that is not authenticated is answered with
\* an error that mentions authentication; no TCPTunnel is constructed and nothing
\* is added to the tunnel registry or to the session's tunnel list.
C4_PreAuthCreateTunnelRejected ==
    [][(IsReceive(last', {"create_tunnel"}) /\ ~last'.authed)
          => /\ Len(sent') = 1
             /\ sent'[1].to = last'.client
             /\ sent'[1].msg.type = "error"
             /\ MentionsAuthentication(sent'[1].msg.message)
             /\ tobj' = tobj
             /\ tunnels' = tunnels
             /\ clients'[last'.client].tunnels = clients[last'.client].tunnels]_vars

C4_Witness ==
    /\ IsReceive(last, {"create_tunnel"})
    /\ ~last.authed
    /\ last.message.targetHost = "203.0.113.5"
    /\ last.message.targetPort = "80"
    /\ Len(sent) = 1

\* C5: every tunnelId in a registered session's tunnel list is a key of the
\* tunnel registry.
C5_TunnelListWithinRegistry ==
    \A c \in DOMAIN clients :
        \A i \in 1..Len(clients[c].tunnels) : clients[c].tunnels[i] \in tunnels

\* C6: over its life a tunnel's owner is sent at most one tunnel_close for it.
C6_AtMostOneTunnelClose ==
    \A t \in TunnelIds : closeSent[t] <= 1

\* C7: when a session's transport closes, every tunnel it owns is destroyed and
\* out of the tunnel registry when the session is removed, and the registry never
\* holds a tunnel whose session is not registered.
C7_DisconnectClosesTunnels ==
    [][/\ \A t \in tunnels' : tobj'[t].clientId \in DOMAIN clients'
       /\ last'.op = "ws_close"
             => /\ last'.client \notin DOMAIN clients'
                /\ \A t \in DOMAIN tobj :
                      tobj[t].clientId = last'.client
                          => t \notin tunnels' /\ Destroyed(tobj'[t].tcpSocket)]_vars

\* A session disconnected while a tunnel of its own was live, with the other
\* session still registered.
C7_Witness ==
    /\ last.op = "ws_close"
    /\ Len(sent) >= 1
    /\ \A i \in 1..Len(sent) : sent[i].msg.type = "tunnel_close"
    /\ DOMAIN clients # {}

\* C8: once the cleanup timer has run, no tunnel older than the maximum lifetime
\* is left in the tunnel registry.
C8_SweepReapsOldTunnels ==
    last.op = "cleanup" => \A t \in tunnels : ~(now - born[t] > MaxTunnelAge)

\* C9: auth with a token of the allow-list sets the sender's flag, is answered
\* with exactly one auth_success, and changes no other session and no registry.
C9_ValidAuthSucceeds ==
    [][(IsReceive(last', {"auth"}) /\ last'.message.token \in validTokens)
          => LET c == last'.client
             IN  /\ clients'[c].authenticated
                 /\ Len(sent') = 1
                 /\ sent'[1].to = c
                 /\ sent'[1].delivered
                 /\ sent'[1].msg.type = "auth_success"
                 /\ DOMAIN clients' = DOMAIN clients
                 /\ \A d \in DOMAIN clients : d # c => clients'[d] = clients[d]
                 /\ clients'[c].tunnels = clients[c].tunnels
                 /\ tunnels' = tunnels
                 /\ tobj' = tobj
                 /\ http' = http]_vars

\* A session authenticated with "client123" while another registered session
\* stayed unauthenticated.
C9_Witness ==
    /\ IsReceive(last, {"auth"})
    /\ last.message.token = "client123"
    /\ ~last.authed
    /\ clients[last.client].authenticated
    /\ \E d \in DOMAIN clients : ~clients[d].authenticated

\* What a valid auth dispatched next on session c would do.
RetrySucceeds(c) ==
    LET r == handleClientMessage(Heap, c, Message("auth", "client123", 0, 0, NoBlob, "", ""))
    IN  /\ r.clients[c].authenticated
        /\ Len(r.sent) = 1
        /\ r.sent[1].delivered
        /\ r.sent[1].msg.type = "auth_success"

\* C10: auth with a token outside the allow-list is answered with auth_failed,
\* keeps the session registered with its transport open and its flag as it was,
\* and a valid auth on the same session then succeeds.
C10_FailedAuthKeepsSession ==
    (IsReceive(last, {"auth"}) /\ last.message.token \notin validTokens)
        => LET c == last.client
           IN  /\ Len(sent) = 1
               /\ sent[1].to = c
               /\ sent[1].msg.type = "auth_failed"
               /\ c \in DOMAIN clients
               /\ ws[c] = "open"
               /\ clients[c].authenticated = last.authed
               /\ RetrySucceeds(c)

\* An authenticated session that owns a live tunnel sent a bad token.
C10_Witness ==
    /\ IsReceive(last, {"auth"})
    /\ last.message.token = "letmein"
    /\ last.authed
    /\ \E t \in tunnels : tobj[t].clientId = last.client

\* C11: a session is registered with the authenticated flag false; the flag
\* changes only from false to true, and only in the step that handles an auth
\* message of that session with a valid token. It never goes back to false.
C11_FlagOnlyRisesOnValidAuth ==
    [][\A c \in ClientIds :
          /\ (c \in DOMAIN clients' /\ c \notin DOMAIN clients)
                => ~clients'[c].authenticated
          /\ (c \in DOMAIN clients /\ c \in DOMAIN clients'
                /\ clients'[c].authenticated # clients[c].authenticated)
                => /\ ~clients[c].authenticated
                   /\ clients'[c].authenticated
                   /\ IsReceive(last', {"auth"})
                   /\ last'.client = c
                   /\ last'.message.token \in validTokens]_vars

\* An authenticated session has sent a valid auth again and is still
\* authenticated.
C11_Witness ==
    /\ IsReceive(last, {"auth"})
    /\ last.message.token \in validTokens
    /\ last.authed
    /\ clients[last.client].authenticated

Malformed(message) ==
    parseInt(message.targetPort).nan \/ message.targetHost \in BadHosts

\* C12: a create_tunnel of an authenticated session with a non-numeric
\* targetPort or an empty targetHost is answered with one error, and no tunnel
\* object is ever constructed for an empty target host.
C12_MalformedCreateRejected ==
    /\ (IsReceive(last, {"create_tunnel"}) /\ last.authed /\ Malformed(last.message))
          => /\ Len(sent) = 1
             /\ sent[1].to = last.client
             /\ sent[1].msg.type = "error"
    /\ \A t \in DOMAIN tobj : tobj[t].targetHost \notin BadHosts

\* C13: a tunnel whose socket failed while connecting never had tunnel_open
\* sent, has had tunnel_close delivered to its owner, is out of the registry,
\* and its socket stays destroyed: it is never connecting again.
C13_ConnectFailureClosesTunnel ==
    \A t \in connectFailed :
        /\ t \notin opened
        /\ closeSent[t] >= 1
        /\ t \notin tunnels
        /\ Destroyed(tobj[t].tcpSocket)

\* The connect of a tunnel has just failed, and its owner was told.
C13_Witness ==
    /\ last.op = "sock_error"
    /\ last.tunnel \in connectFailed
    /\ Len(sent) = 1
    /\ sent[1].delivered
    /\ sent[1].msg.type = "tunnel_close"

\* C14: every chunk read from a tunnel's outbound connection is forwarded in
\* the step that reads it, as exactly one tunnel_data delivered to the owner
\* that decrypts to the chunk; tunnel_data is sent in no other step. The
\* messages to the owner are therefore in the order of the reads, none dropped
\* and none sent twice.
C14_ChunksForwardedInOrder ==
    [][/\ last'.op = "sock_data"
            => /\ Len(sent') = 1
               /\ sent'[1].to = tobj[last'.tunnel].clientId
               /\ sent'[1].delivered
               /\ sent'[1].msg.type = "tunnel_data"
               /\ sent'[1].msg.tunnelId = last'.tunnel
               /\ decrypt(sent'[1].msg.data).ok
               /\ decrypt(sent'[1].msg.data).data = last'.chunk
       /\ \A i \in 1..Len(sent') :
              sent'[i].msg.type = "tunnel_data" => last'.op = "sock_data"]_vars

\* The chunk c2 was read from an open tunnel and forwarded.
C14_Witness ==
    /\ last.op = "sock_data"
    /\ last.chunk = "c2"
    /\ Len(sent) = 1
    /\ decrypt(sent[1].msg.data).data = "c2"

\* C15: once close() has run on a tunnel (its socket is destroyed or closed), a
\* tunnel_data or close_tunnel naming it, from any session, writes nothing,
\* changes neither registry nor any tunnel list or tunnel object, and is not
\* answered.
C15_ClosedIdIsUnknown ==
    [][(/\ IsReceive(last', {"tunnel_data", "close_tunnel"})
        /\ last'.message.tunnelId \in DOMAIN tobj
        /\ Destroyed(tobj[last'.message.tunnelId].tcpSocket))
          => /\ wrote' = <<>>
             /\ sent' = <<>>
             /\ tunnels' = tunnels
             /\ tobj' = tobj
             /\ clients' = clients]_vars

\* The owner sent decryptable tunnel_data for its tunnel after close() destroyed
\* the socket and before the socket's 'close' event.
C15_Witness ==
    /\ IsReceive(last, {"tunnel_data"})
    /\ last.authed
    /\ decrypt(last.message.data).ok
    /\ last.message.tunnelId \in DOMAIN tobj
    /\ tobj[last.message.tunnelId].clientId = last.client
    /\ tobj[last.message.tunnelId].tcpSocket = "destroyed"
    /\ wrote = <<>>

\* C16: the messages of one session are handled one after the other: no reply
\* to a message of a session is sent while an earlier http_proxy of that
\* session still awaits its outbound request.
C16_SessionMessagesInOrder ==
    (last.op = "message" /\ sent # <<>>) => http[last.client] = 0

\* What session b receives, and what becomes of its own record, when the
\* handler of message m runs on the heap st.
Observed(st, b, m) ==
    LET after == handleClientMessage(st, b, m)
    IN  [sent |-> SelectSeq(after.sent, LAMBDA e : e.to = b),
         info |-> after.clients[b]]

\* C17: for a tunnel_data or close_tunnel naming a live tunnel of another
\* session, session b observes nothing, and exactly what it observes on the
\* heap that differs only in that the tunnel does not exist.
C17_ForeignTunnelLooksAbsent ==
    \A b \in DOMAIN clients :
        \A m \in {x \in Messages : x.type \in {"tunnel_data", "close_tunnel"}} :
            (m.tunnelId \in tunnels /\ tobj[m.tunnelId].clientId # b)
                => LET absent == [Heap EXCEPT !.tunnels = @ \ {m.tunnelId},
                                              !.tobj = Without(@, m.tunnelId)]
                   IN  /\ Observed(Heap, b, m) = Observed(absent, b, m)
                       /\ Observed(Heap, b, m).sent = <<>>

\* An authenticated session asked to close a live tunnel of another session, and
\* nothing was sent.
C17_Witness ==
    /\ IsReceive(last, {"close_tunnel"})
    /\ last.authed
    /\ last.message.tunnelId \in tunnels
    /\ tobj[last.message.tunnelId].clientId # last.client
    /\ ~Destroyed(tobj[last.message.tunnelId].tcpSocket)
    /\ sent = <<>>

\* C18: a close_tunnel of an authenticated session that names an id that is not
\* in the registry, or a tunnel of another session, changes neither registry,
\* no tunnel list, no tunnel object and no socket, and sends nothing.
C18_CloseUnknownOrUnowned ==
    [][(/\ IsReceive(last', {"close_tunnel"})
        /\ last'.authed
        /\ \/ last'.message.tunnelId \notin tunnels
           \/ tobj[last'.message.tunnelId].clientId # last'.client)
          => /\ tunnels' = tunnels
             /\ tobj' = tobj
             /\ clients' = clients
             /\ sent' = <<>>
             /\ wrote' = <<>>]_vars

\* An authenticated session asked to close an id that was never issued.
C18_Witness ==
    /\ IsReceive(last, {"close_tunnel"})
    /\ last.authed
    /\ last.message.tunnelId \notin DOMAIN tobj
    /\ tunnels # {}
    /\ sent = <<>>

KnownTypes ==
    {"auth", "ping", "create_tunnel", "tunnel_data", "close_tunnel", "stats", "http_proxy"}

\* C19: a message of no known type is answered with one error that lists the
\* known message types.
C19_UnknownTypeListsKnownTypes ==
    (last.op = "message" /\ last.message.type \notin KnownTypes)
        => /\ Len(sent) = 1
           /\ sent[1].to = last.client
           /\ sent[1].msg.type = "error"
           /\ "availableTypes" \in DOMAIN sent[1].msg

\* C20: a ping is answered with one pong that carries the ping's timestamp as
\* originalTimestamp, and serverTime.
C20_PongEchoesOriginalTimestamp ==
    IsReceive(last, {"ping"})
        => /\ Len(sent) = 1
           /\ sent[1].to = last.client
           /\ sent[1].msg.type = "pong"
           /\ "serverTime" \in DOMAIN sent[1].msg
           /\ "originalTimestamp" \in DOMAIN sent[1].msg
           /\ sent[1].msg.originalTimestamp = last.message.timestamp

\* The ids a stats reply lists.
Listed(msg) == {msg.tunnels[i].id : i \in 1..Len(msg.tunnels)}

\* C21: the reply to stats lists, each once, exactly the tunnels of the registry
\* that the asking session owns, and its counters are the sizes of the session
\* registry and of the tunnel registry.
C21_StatsListsOwnLiveTunnels ==
    IsReceive(last, {"stats"})
        => /\ Len(sent) = 1
           /\ sent[1].to = last.client
           /\ sent[1].msg.type = "client_stats"
           /\ Listed(sent[1].msg) = {t \in tunnels : tobj[t].clientId = last.client}
           /\ Len(sent[1].msg.tunnels) = Cardinality(Listed(sent[1].msg))
           /\ sent[1].msg.totalClients = Cardinality(DOMAIN clients)
           /\ sent[1].msg.totalTunnels = Cardinality(tunnels)

\* A session whose list still names a tunnel that left the registry asked for
\* stats while another session was connected, and no tunnel was listed.
C21_Witness ==
    /\ IsReceive(last, {"stats"})
    /\ clients[last.client].tunnels # <<>>
    /\ sent[1].msg.tunnels = <<>>
    /\ Cardinality(DOMAIN clients) = 2

\* C22: an http_proxy of an authenticated session that stays connected is
\* eventually answered.
C22_HttpProxyAnswered ==
    \A c \in ClientIds : (http[c] > 0) ~> (http[c] = 0 \/ ws[c] # "open")

\* C23: a session that is not authenticated is eventually authenticated or
\* removed, and a tunnel whose socket is connecting eventually leaves that state.
C23_WaitsAreBounded ==
    /\ \A c \in ClientIds :
          (c \in DOMAIN clients /\ ~clients[c].authenticated)
              ~> (c \notin DOMAIN clients \/ clients[c].authenticated)
    /\ \A t \in TunnelIds :
          (t \in tunnels /\ tobj[t].tcpSocket = "connecting")
              ~> (t \notin tunnels \/ tobj[t].tcpSocket # "connecting")

\* C24: there is a ceiling, below what the model counts, that the write queue of
\* no tunnel's socket ever exceeds.
C24_WriteQueueBounded ==
    \E ceiling \in 0..(MaxBuffered - 1) :
        \A t \in DOMAIN tobj : tobj[t].writableLength <= ceiling

\* C25: a tunnel_data of the owner of a live tunnel whose payload does not
\* decrypt writes nothing, sends nothing and changes neither registry, tunnel
\* nor session; the same message with a payload that decrypts is then written
\* to the tunnel.
C25_BadBlobDroppedSilently ==
    [][(/\ IsReceive(last', {"tunnel_data"})
        /\ last'.authed
        /\ last'.message.tunnelId \in tunnels
        /\ tobj[last'.message.tunnelId].clientId = last'.client
        /\ ~decrypt(last'.message.data).ok)
          => /\ wrote' = <<>>
             /\ sent' = <<>>
             /\ tunnels' = tunnels
             /\ tobj' = tobj
             /\ clients' = clients
             /\ ws' = ws
             /\ LET valid == [last'.message EXCEPT !.data = encrypt("GET /")]
                    after == handleClientMessage(
                                 [clients |-> clients', tunnels |-> tunnels',
                                  tobj |-> tobj', ws |-> ws', http |-> http',
                                  sent |-> <<>>, wrote |-> <<>>],
                                 last'.client, valid)
                IN  after.wrote = <<[tunnelId |-> valid.tunnelId, data |-> "GET /"]>>]_vars

\* The owner of an open tunnel sent a payload encrypted under another key.
C25_Witness ==
    /\ IsReceive(last, {"tunnel_data"})
    /\ last.authed
    /\ ~decrypt(last.message.data).ok
    /\ last.message.tunnelId \in tunnels
    /\ tobj[last.message.tunnelId].clientId = last.client
    /\ tobj[last.message.tunnelId].tcpSocket = "open"
    /\ sent = <<>>

\* C26: data that does not parse as JSON is answered with one error.
C26_UnparsedAnsweredWithError ==
    last.op = "unparsed"
        => /\ Len(sent) = 1
           /\ sent[1].to = last.client
           /\ sent[1].msg.type = "error"

\* C28: a session enters the registry only in the connection step, with
\* authenticated false and no tunnels, and the only message of that step is a
\* welcome to it that carries its id; a message is dispatched only for a session
\* that is registered.
C28_WelcomeFirst ==
    [][/\ \A c \in ClientIds :
              (c \in DOMAIN clients' /\ c \notin DOMAIN clients)
                  => /\ last'.op = "connection"
                     /\ last'.client = c
                     /\ clients'[c] = [id |-> c, authenticated |-> FALSE, tunnels |-> <<>>]
                     /\ Len(sent') = 1
                     /\ sent'[1].to = c
                     /\ sent'[1].delivered
                     /\ sent'[1].msg.type = "welcome"
                     /\ sent'[1].msg.clientId = c
       /\ last'.op \in {"message", "unparsed"} => last'.client \in DOMAIN clients]_vars

\* A second session was accepted and greeted while the first is authenticated.
C28_Witness ==
    /\ last.op = "connection"
    /\ Cardinality(DOMAIN clients) = 2
    /\ sent[1].msg.type = "welcome"
    /\ sent[1].msg.clientId = last.client
    /\ \E c \in DOMAIN clients : clients[c].authenticated

MagicSeen ==
    \/ raw.handshakeComplete
    \/ /\ Len(raw.buffer) >= Len(HANDSHAKE_MAGIC)
       /\ SubSeq(raw.buffer, 1, Len(HANDSHAKE_MAGIC)) = HANDSHAKE_MAGIC

\* The reply number i is the echo of the client's payload under the server key.
IsEcho(i) ==
    /\ Len(raw.out) >= i
    /\ SimpleDecrypt(raw.out[i], "SERVER_KEY") = [ok |-> TRUE, data |-> EchoPrefix \o raw.payload]

\* C29: when the client has written the handshake and then a blob that arrived
\* in two deliveries, and nothing is left to deliver, the connection is open
\* and the client has exactly one echo reply.
C29_SplitBlobReassembled ==
    (raw.phase = "blob" /\ raw.pieces >= 2 /\ raw.flight = <<>>)
        => /\ raw.sock = "open"
           /\ Len(raw.out) = 2
           /\ IsEcho(2)

\* C30: once the server has seen the handshake magic, the handshake is complete
\* and the first reply is HANDSHAKE_RESPONSE under the server key; the
\* connection is open while the client has sent nothing else; a blob under the
\* client key that arrived whole is answered with one echo under the server key.
C30_HandshakeThenEcho ==
    /\ MagicSeen
          => /\ raw.handshakeComplete
             /\ Len(raw.out) >= 1
             /\ SimpleDecrypt(raw.out[1], "SERVER_KEY") =
                    [ok |-> TRUE, data |-> HANDSHAKE_RESPONSE]
    /\ (MagicSeen /\ raw.phase = "handshake") => raw.sock = "open"
    /\ (raw.phase = "blob" /\ raw.pieces = 1 /\ raw.flight = <<>>)
          => /\ Len(raw.out) = 2
             /\ IsEcho(2)

\* C31: no message is sent on a session's transport after that transport has
\* closed: every ws.send call a callback makes targets a transport that is open
\* (so TCPTunnel.close sends `tunnel_close` only while the owner is connected).
C31_NoSendOnClosedTransport ==
    \A i \in 1..Len(sent) : sent[i].delivered

\* C32: every tunnel in the tunnel registry has a clientId that is a key of the
\* session registry, and its tunnelId is in that session's tunnel list.
C32_RegistryTunnelsHaveListedOwner ==
    \A t \in tunnels :
        /\ tobj[t].clientId \in DOMAIN clients
        /\ \E i \in 1..Len(clients[tobj[t].clientId].tunnels) :
              clients[tobj[t].clientId].tunnels[i] = t

\* A tunnel is live and listed while the other session has just disconnected.
C32_Witness ==
    /\ last.op = "ws_close"
    /\ \E t \in tunnels :
          /\ tobj[t].clientId \in DOMAIN clients
          /\ tobj[t].clientId # last.client
          /\ clients[tobj[t].clientId].tunnels = <<t>>

\* C33: a tunnel enters the tunnel registry only while create_tunnel from a
\* session whose authenticated flag is true is handled, and that session is its
\* owner; no other callback (socket events, sweep, http_proxy, stats) adds one.
C33_TunnelsEnterOnlyByAuthedCreate ==
    [][\A t \in tunnels' \ tunnels :
          /\ IsReceive(last', {"create_tunnel"})
          /\ last'.authed
          /\ tobj'[t].clientId = last'.client
          /\ t \notin DOMAIN tobj]_vars

\* create_tunnel of an authenticated session has just registered a tunnel.
C33_Witness ==
    /\ IsReceive(last, {"create_tunnel"})
    /\ last.authed
    /\ \E t \in tunnels : tobj[t].clientId = last.client /\ tobj[t].tcpSocket = "connecting"

\* C34: an outbound 'error' or 'close' on tunnel T affects only T: T leaves the
\* registry, every other tunnel object and the rest of the registry are
\* untouched, the session registry and the transports are unchanged (the owner
\* stays connected and authenticated), nothing is written to any outbound
\* connection, and the one message sent is `tunnel_close` for T to T's owner.
C34_OutboundFailureIsLocal ==
    [][last'.op \in {"sock_error", "sock_close"} =>
          /\ tunnels' = tunnels \ {last'.tunnel}
          /\ DOMAIN tobj' = DOMAIN tobj
          /\ \A u \in DOMAIN tobj \ {last'.tunnel} : tobj'[u] = tobj[u]
          /\ clients' = clients
          /\ ws' = ws
          /\ http' = http
          /\ wrote' = <<>>
          /\ Len(sent') = 1
          /\ sent'[1].to = tobj[last'.tunnel].clientId
          /\ sent'[1].msg = [type |-> "tunnel_close", tunnelId |-> last'.tunnel]]_vars

\* The connection of one tunnel failed while the same owner, connected and
\* authenticated, has another tunnel with an open connection.
C34_Witness ==
    /\ last.op = "sock_error"
    /\ last.client \in DOMAIN clients
    /\ clients[last.client].authenticated
    /\ ws[last.client] = "open"
    /\ \E u \in tunnels : /\ u # last.tunnel
                          /\ tobj[u].clientId = last.client
                          /\ tobj[u].tcpSocket = "open"

\* C35: `tunnel_open` for a tunnelId is sent at most once, only by the connect
\* callback of that tunnel (the connection is then open) and only to the owner
\* session; every `tunnel_data` with that tunnelId goes to the owner and comes
\* after that tunnel_open.
C35_OpenOnceThenData ==
    [][\A i \in 1..Len(sent') :
          /\ sent'[i].msg.type = "tunnel_open" =>
                /\ last'.op = "sock_connect"
                /\ sent'[i].msg.tunnelId = last'.tunnel
                /\ sent'[i].msg.tunnelId \notin opened
                /\ Len(sent') = 1
                /\ tobj'[sent'[i].msg.tunnelId].tcpSocket = "open"
                /\ sent'[i].to = tobj'[sent'[i].msg.tunnelId].clientId
          /\ sent'[i].msg.type = "tunnel_data" =>
                /\ sent'[i].msg.tunnelId \in opened
                /\ sent'[i].to = tobj'[sent'[i].msg.tunnelId].clientId]_vars

\* A chunk of an opened tunnel has been forwarded to its owner while the other
\* tunnel is still connecting.
C35_Witness ==
    /\ last.op = "sock_data"
    /\ last.tunnel \in opened
    /\ Len(sent) = 1
    /\ sent[1].delivered
    /\ sent[1].msg.type = "tunnel_data"
    /\ \E u \in tunnels \ opened : tobj[u].tcpSocket = "connecting"

\* C36: closed is terminal: once a tunnel has left the registry, no
\* `tunnel_open` and no `tunnel_data` with its tunnelId is sent to any session,
\* and the tunnelId does not enter the registry again.
C36_ClosedIsTerminal ==
    [][\A t \in (DOMAIN tobj) \ tunnels :
          /\ t \notin tunnels'
          /\ \A i \in 1..Len(sent') :
                sent'[i].msg.type \in {"tunnel_open", "tunnel_data"}
                    => sent'[i].msg.tunnelId # t]_vars

\* The socket of a tunnel that was opened and then closed by its owner has
\* emitted 'close', while another tunnel was created after it.
C36_Witness ==
    /\ last.op = "sock_close"
    /\ last.tunnel \in opened
    /\ last.tunnel \notin tunnels
    /\ closeSent[last.tunnel] >= 1
    /\ \E u \in tunnels : u > last.tunnel

\* C37: raw-stream server: while fewer bytes than the magic has have arrived, a
\* delivery leaves the connection open and registered, the flag, the timer and
\* the replies unchanged; a connection whose first bytes, as many as the magic
\* has, differ from the magic is destroyed, has handshakeComplete false and has
\* received no reply.
C37_WrongMagicDestroyedShortWaits ==
    [][/\ (/\ raw.sock = "open"
           /\ Len(raw'.buffer) > Len(raw.buffer)
           /\ Len(raw'.buffer) < Len(HANDSHAKE_MAGIC))
          => /\ raw'.sock = "open"
             /\ raw'.registered
             /\ raw'.handshakeComplete = raw.handshakeComplete
             /\ raw'.timer = raw.timer
             /\ raw'.out = raw.out
       /\ (/\ ~raw.handshakeComplete
           /\ Len(raw'.buffer) >= Len(HANDSHAKE_MAGIC)
           /\ SubSeq(raw'.buffer, 1, Len(HANDSHAKE_MAGIC)) # HANDSHAKE_MAGIC)
          => /\ raw'.sock \in {"destroyed", "closed"}
             /\ ~raw'.handshakeComplete
             /\ raw'.out = <<>>]_vars

\* Bytes that are not the magic arrived in two deliveries; the server waited
\* after the first and destroyed the socket at the second, before the timer.
C37_Witness ==
    /\ raw.phase = "garbage"
    /\ raw.pieces = 2
    /\ raw.buffer = WrongMagic
    /\ raw.sock = "destroyed"
    /\ raw.timer = "armed"
    /\ raw.out = <<>>

\* C38: raw-stream server: a delivery that starts with handshakeComplete false
\* decrypts no client data and writes no echo: no reply was written before it,
\* and the only thing it can write is HANDSHAKE_RESPONSE under the server key.
C38_NoDataBeforeHandshake ==
    [][~raw.handshakeComplete =>
          /\ raw.out = <<>>
          /\ Len(raw'.out) <= 1
          /\ \A i \in 1..Len(raw'.out) :
                SimpleDecrypt(raw'.out[i], "SERVER_KEY") =
                    [ok |-> TRUE, data |-> HANDSHAKE_RESPONSE]]_vars

\* A client sent a valid blob under the client key as its first bytes: the
\* handler destroyed the socket and wrote nothing.
C38_Witness ==
    /\ raw.buffer = FirstBlob
    /\ ~raw.handshakeComplete
    /\ raw.sock = "destroyed"
    /\ raw.timer = "armed"
    /\ raw.out = <<>>

\* C39: raw-stream server: when the handshake timer fires on a connection whose
\* handshake is not complete the socket is destroyed, and on one whose handshake
\* is complete nothing changes; a closed connection has no entry in
\* clientStates and no armed timer, and a cleared timer never fires.
C39_TimerTearsDownIncomplete ==
    [][/\ (raw.timer = "armed" /\ raw'.timer = "fired")
          => IF raw.handshakeComplete
             THEN raw' = [raw EXCEPT !.timer = "fired"]
             ELSE raw'.sock = "destroyed"
       /\ raw'.sock = "closed" => ~raw'.registered /\ raw'.timer # "armed"
       /\ raw.timer = "cleared" => raw'.timer = "cleared"]_vars

\* A client that sent nothing: the timer fired, the socket was destroyed and
\* closed, and the entry is gone.
C39_Witness ==
    /\ raw.phase = "idle"
    /\ raw.timer = "fired"
    /\ raw.sock = "closed"
    /\ ~raw.registered

\* C40: plain TCP server: an accepted connection is registered and has received
\* one encrypted welcome; a delivery that decrypts gets exactly one encrypted
\* response, which quotes the trimmed message, and when the message is "exit"
\* the server then ends its side; a delivery that does not decrypt gets no
\* response and leaves the connection as it was, open and registered; a closed
\* connection has no entry in the clients map.
C40_PlainServerAnswersEachDelivery ==
    [][/\ (plain.sock = "none" /\ plain'.sock # "none")
          => /\ plain'.registered
             /\ Len(plain'.out) = 1
             /\ SimpleCipherDecrypt(plain'.out[1]) = [ok |-> TRUE, data |-> WelcomeMsg]
       /\ plain'.deliveries = plain.deliveries + 1
          => LET decrypted == SimpleCipherDecrypt(plain'.lastIn)
             IN  IF decrypted.ok
                 THEN /\ Len(plain'.out) = Len(plain.out) + 1
                      /\ SimpleCipherDecrypt(plain'.out[Len(plain'.out)]) =
                             [ok |-> TRUE, data |-> Response(trim(decrypted.data))]
                      /\ toLowerCase(trim(decrypted.data)) = ExitText
                             => plain'.sock = "ended"
                 ELSE /\ plain'.out = plain.out
                      /\ plain'.sock = plain.sock
                      /\ plain'.registered
       /\ plain'.sock = "closed" => ~plain'.registered]_vars

====
